---------------------------- MODULE Spec2Model ----------------------------
(***************************************************************************)
(* Flip clock firmware (ppfamily99/FlipClock): the dial positioning state  *)
(* machine (homing, single step, hour advance, reconciliation with the     *)
(* time source) and the NORMAL/SETTING mode machine of the RTC sketches.   *)
(*                                                                         *)
(* Three sketches are modelled, chosen in Init and fixed for a run:        *)
(*   RTC_PCF8574  src/Arduino_RTC_FlipClock.ino lines 1..291               *)
(*   RTC_GPIO     src/Arduino_RTC_FlipClock.ino lines 293..508             *)
(*   WIFI         src/Arduino_WiFi_FlipClock.ino and src/unnamed/part_000  *)
(*                (the same program, with and without comments)            *)
(*                                                                         *)
(* The program is single threaded and blocking.  pc is the position of the *)
(* one thread, stack the return positions of the calls in progress.  Every *)
(* digitalRead is an input: the action that reads HIGH and the action that *)
(* reads LOW are both enabled.  Time passes only in delay(): a delay adds  *)
(* its milliseconds to the time since the last accepted button press and   *)
(* may carry the time source over a minute boundary.                       *)
(***************************************************************************)
EXTENDS Integers, Sequences, FiniteSets, TLC

\* ------------------------------------------------------------ bounds
\* Minute boundaries the time source may cross during one run of an RTC sketch.
MaxTicks == 1
\* The same for the WiFi sketch, where one step that outlasts two minute
\* boundaries matters.
MaxTicksWifi == 2
\* Button presses accepted by handleButtons during one run.
MaxPresses == 3
\* The initial time and the compile time are drawn from both ends of the hour
\* and minute ranges, so that zero steps, a full turn and wrap-around all occur.
InitHours == {0, 23}
InitMinutes == {0, 59}

\* ------------------------------------------------- program constants
SERVO_STOP_POSITION == 90
debounceDelay == 250
MinutesPerDial == 60
HoursPerDial == 24
\* The counters' initial value: position unknown.
UNKNOWN == -1
\* A servo object that has not been attached and written yet.
NOT_ATTACHED == -1

RTC_PCF8574 == "RTC_PCF8574"
RTC_GPIO == "RTC_GPIO"
WIFI == "WIFI"
Sketches == {RTC_PCF8574, RTC_GPIO, WIFI}
RTCSketches == {RTC_PCF8574, RTC_GPIO}

NORMAL_MODE == "NORMAL_MODE"
SETTING_MODE == "SETTING_MODE"

HIGH == "HIGH"
LOW == "LOW"
NotRead == "NotRead"

SERVO_MOVE_OFFSET_MINUTE(sk) ==
    CASE sk = RTC_PCF8574 -> 15
      [] sk = RTC_GPIO -> 5
      [] OTHER -> 30

SERVO_MOVE_OFFSET_HOUR(sk) ==
    CASE sk = RTC_PCF8574 -> -15
      [] sk = RTC_GPIO -> -5
      [] OTHER -> -30

\* delay() inside the homing loops.
HomingDelay(sk) == IF sk = WIFI THEN 200 ELSE 20
\* delay() after a dial is homed (WiFi sketch only).
HomedDelay(sk) == IF sk = WIFI THEN 500 ELSE 0

VARIABLES
    sketch,                 \* which of the three programs runs
    pc,                     \* position of the thread
    stack,                  \* return positions of the calls in progress
    currentMode,            \* ClockState currentMode
    currentMinuteOnClock,   \* int, -1 until homed
    currentHourOnClock,     \* int, -1 until homed
    settingHour,            \* int settingHour (global, so 0 at start)
    settingMinute,          \* int settingMinute
    sincePress,             \* millis() - lastButtonPressTime, saturated at debounceDelay
    timeSource,             \* [hour, minute] the RTC / NTP client reports
    actualHour,             \* local of syncClockToRTC / loop
    actualMinute,           \* local of syncClockToRTC / loop
    servoMinute,            \* last value written to servoMinute
    servoHour,              \* last value written to servoHour
    homeRead,               \* last value read from each home switch
    hourSteps,              \* performHourSingleStep runs completed in this moveHourToNext
    minuteCalls,            \* completed moveMinuteStep calls since homing
    hourCalls,              \* completed moveHourToNext calls since homing
    syncPlan,               \* advances owed when syncClockToRTC read the time
    syncDone,               \* advances made by the running syncClockToRTC
    adjusts,                \* rtc.adjust calls made after startup
    lastAdjust,             \* argument of the last rtc.adjust: <<hour, minute, second>>
    atPress,                \* state recorded when the press being handled was accepted
    ticks,                  \* minute boundaries crossed so far
    presses                 \* presses accepted so far

vars == <<sketch, pc, stack, currentMode, currentMinuteOnClock, currentHourOnClock,
          settingHour, settingMinute, sincePress, timeSource, actualHour,
          actualMinute, servoMinute, servoHour, homeRead, hourSteps, minuteCalls,
          hourCalls, syncPlan, syncDone, adjusts, lastAdjust, atPress, ticks,
          presses>>

\* ------------------------------------------------------------ helpers
Min(a, b) == IF a < b THEN a ELSE b

\* (a - b) mod n for a, b in -1..n-1.
ModDiff(a, b, n) == (a - b + 2 * n) % n

\* Mutant: the minute counter is incremented without the modulo.
NextMinute_NoWrap(c) == c + 1
\* currentMinuteOnClock = (currentMinuteOnClock + 1) % 60
NextMinute(c) == (c + 1) % MinutesPerDial

\* Mutant: the hour counter wraps one value early.
NextHour_WrapsEarly(c) == (c + 1) % (HoursPerDial - 1)
\* currentHourOnClock = (currentHourOnClock + 1) % 24
NextHour(c) == (c + 1) % HoursPerDial

\* settingHour = (settingHour + 1) % 24
NextSettingHour(c) == (c + 1) % HoursPerDial
\* Mutant: the scratch minute is incremented without the modulo.
NextSettingMinute_NoWrap(c) == c + 1
\* settingMinute = (settingMinute + 1) % 60
NextSettingMinute(c) == (c + 1) % MinutesPerDial

\* currentMinuteOnClock = 0 / currentHourOnClock = 0 at the end of homing
HomePosition == 0

Times == [hour : InitHours, minute : InitMinutes]

\* The time source one minute later.
Tick(t) ==
    IF t.minute = MinutesPerDial - 1
    THEN [hour |-> (t.hour + 1) % HoursPerDial, minute |-> 0]
    ELSE [hour |-> t.hour, minute |-> t.minute + 1]

NotSaved == <<>>

NoPress == [button |-> "none", mode |-> "none", hour |-> UNKNOWN, minute |-> UNKNOWN,
            settingHour |-> 0, settingMinute |-> 0, adjusts |-> 0,
            hourCalls |-> 0, minuteCalls |-> 0, saved |-> NotSaved]

\* The record handleButtons' accepted press leaves in atPress.
\* saved is <<ticks>> as of the moment this handleButtons call wrote the RTC,
\* NotSaved while it has not.
Press(button) ==
    [button |-> button, mode |-> currentMode,
     hour |-> currentHourOnClock, minute |-> currentMinuteOnClock,
     settingHour |-> settingHour, settingMinute |-> settingMinute,
     adjusts |-> adjusts, hourCalls |-> hourCalls, minuteCalls |-> minuteCalls,
     saved |-> IF button = "save" THEN <<ticks>> ELSE atPress.saved]

\* Minute boundaries the running sketch's time source may still cross.
TickBound == IF sketch = WIFI THEN MaxTicksWifi ELSE MaxTicks

\* delay(ms): time passes.  The cooldown clock exists in the RTC sketches only.
Delay(ms) ==
    /\ sincePress' = IF sketch = WIFI THEN sincePress
                     ELSE Min(debounceDelay, sincePress + ms)
    /\ \/ UNCHANGED <<timeSource, ticks>>
       \/ /\ ms > 0
          /\ ticks < TickBound
          /\ timeSource' = Tick(timeSource)
          /\ ticks' = ticks + 1

NoDelay == UNCHANGED <<sincePress, timeSource, ticks>>

Call(target, return) ==
    /\ pc' = target
    /\ stack' = <<return>> \o stack

Return ==
    /\ pc' = Head(stack)
    /\ stack' = Tail(stack)

Goto(target) ==
    /\ pc' = target
    /\ UNCHANGED stack

\* Mutant: the second sketch syncs the display before it has homed the hour dial.
SetupSequence_SyncBeforeHoming(sk) ==
    CASE sk = RTC_PCF8574 ->
           <<"setup_rtc_begin", "setup_lost_power", "setup_attach",
             "setup_home_hour", "setup_home_minute", "setup_sync", "loop">>
      [] sk = RTC_GPIO ->
           <<"setup_attach", "setup_rtc_begin", "setup_lost_power",
             "setup_home_minute", "setup_sync", "setup_home_hour", "loop">>
      [] OTHER ->
           <<"setup_attach", "setup_wifi", "setup_home_minute",
             "setup_home_hour", "setup_ntp", "loop">>

\* The order of setup()'s steps in each sketch.
SetupSequence(sk) ==
    CASE sk = RTC_PCF8574 ->
           <<"setup_rtc_begin", "setup_lost_power", "setup_attach",
             "setup_home_hour", "setup_home_minute", "setup_sync", "loop">>
      [] sk = RTC_GPIO ->
           <<"setup_attach", "setup_rtc_begin", "setup_lost_power",
             "setup_home_minute", "setup_home_hour", "setup_sync", "loop">>
      [] OTHER ->
           <<"setup_attach", "setup_wifi", "setup_home_minute",
             "setup_home_hour", "setup_ntp", "loop">>

AfterSetupStep(step) ==
    LET seq == SetupSequence(sketch)
        i == CHOOSE k \in 1..Len(seq) : seq[k] = step
    IN seq[i + 1]

dials == <<currentMinuteOnClock, currentHourOnClock, minuteCalls, hourCalls>>
servos == <<servoMinute, servoHour>>
scratch == <<settingHour, settingMinute>>
locals == <<actualHour, actualMinute>>
syncGhost == <<syncPlan, syncDone>>
rtcWrites == <<adjusts, lastAdjust>>

\* ------------------------------------------------------------ Init
Init ==
    /\ sketch \in Sketches
    /\ pc = SetupSequence(sketch)[1]
    /\ stack = <<>>
    /\ currentMode = NORMAL_MODE
    /\ currentMinuteOnClock = UNKNOWN
    /\ currentHourOnClock = UNKNOWN
    /\ settingHour = 0
    /\ settingMinute = 0
    /\ sincePress = 0
    /\ timeSource \in Times
    /\ actualHour = 0
    /\ actualMinute = 0
    /\ servoMinute = NOT_ATTACHED
    /\ servoHour = NOT_ATTACHED
    /\ homeRead = [minute |-> NotRead, hour |-> NotRead]
    /\ hourSteps = 0
    /\ minuteCalls = 0
    /\ hourCalls = 0
    /\ syncPlan = [hour |-> 0, minute |-> 0]
    /\ syncDone = [hour |-> 0, minute |-> 0]
    /\ adjusts = 0
    /\ lastAdjust = <<>>
    /\ atPress = NoPress
    /\ ticks = 0
    /\ presses = 0

\* ------------------------------------------------------------ setup()
\* rtc.begin(): on failure the sketch halts for ever.
SetupRtcBegin ==
    /\ pc = "setup_rtc_begin"
    /\ \/ Goto("halt")
       \/ Goto(AfterSetupStep("setup_rtc_begin"))
    /\ NoDelay
    /\ UNCHANGED <<sketch, currentMode, dials, scratch, locals, servos, homeRead,
                   hourSteps, syncGhost, rtcWrites, atPress, presses>>

\* Mutant: the halt loop is missing, setup goes on after the failed rtc.begin().
Halt_FallsThrough ==
    /\ pc = "halt"
    /\ Goto(AfterSetupStep("setup_rtc_begin"))
    /\ NoDelay
    /\ UNCHANGED <<sketch, currentMode, dials, scratch, locals, servos,
                   homeRead, hourSteps, syncGhost, rtcWrites, atPress, presses>>

\* while (1) delay(100);  /  while (1);
Halt ==
    /\ pc = "halt"
    /\ IF sketch = RTC_PCF8574 THEN Delay(100) ELSE NoDelay
    /\ UNCHANGED <<sketch, pc, stack, currentMode, dials, scratch, locals, servos,
                   homeRead, hourSteps, syncGhost, rtcWrites, atPress, presses>>

\* if (rtc.lostPower()) rtc.adjust(DateTime(F(__DATE__), F(__TIME__)));
\* Startup's write is not counted in adjusts.
SetupLostPower ==
    /\ pc = "setup_lost_power"
    /\ \/ UNCHANGED timeSource
       \/ \E compiled \in Times : timeSource' = compiled
    /\ Goto(AfterSetupStep("setup_lost_power"))
    /\ UNCHANGED <<sketch, currentMode, dials, scratch, locals, servos, homeRead,
                   hourSteps, syncGhost, rtcWrites, atPress, presses, sincePress, ticks>>

\* servoX.attach(); servoMinute.write(STOP); servoHour.write(STOP);
SetupAttach ==
    /\ pc = "setup_attach"
    /\ servoMinute' = SERVO_STOP_POSITION
    /\ servoHour' = SERVO_STOP_POSITION
    /\ Goto(AfterSetupStep("setup_attach"))
    /\ NoDelay
    /\ UNCHANGED <<sketch, currentMode, dials, scratch, locals, homeRead,
                   hourSteps, syncGhost, rtcWrites, atPress, presses>>

\* while (WiFi.status() != WL_CONNECTED) delay(500);  timeClient.begin();
SetupWifi ==
    /\ pc = "setup_wifi"
    /\ \/ Goto("setup_wifi") /\ Delay(500)
       \/ Goto(AfterSetupStep("setup_wifi")) /\ NoDelay
    /\ UNCHANGED <<sketch, currentMode, dials, scratch, locals, servos, homeRead,
                   hourSteps, syncGhost, rtcWrites, atPress, presses>>

\* while (!timeClient.update()) timeClient.forceUpdate();
SetupNtp ==
    /\ pc = "setup_ntp"
    /\ \/ Goto("setup_ntp")
       \/ Goto(AfterSetupStep("setup_ntp"))
    /\ NoDelay
    /\ UNCHANGED <<sketch, currentMode, dials, scratch, locals, servos, homeRead,
                   hourSteps, syncGhost, rtcWrites, atPress, presses>>

SetupHomeHour ==
    /\ pc = "setup_home_hour"
    /\ Call("goHomeHour", AfterSetupStep("setup_home_hour"))
    /\ NoDelay
    /\ UNCHANGED <<sketch, currentMode, dials, scratch, locals, servos, homeRead,
                   hourSteps, syncGhost, rtcWrites, atPress, presses>>

SetupHomeMinute ==
    /\ pc = "setup_home_minute"
    /\ Call("goHomeMinute", AfterSetupStep("setup_home_minute"))
    /\ NoDelay
    /\ UNCHANGED <<sketch, currentMode, dials, scratch, locals, servos, homeRead,
                   hourSteps, syncGhost, rtcWrites, atPress, presses>>

SetupSync ==
    /\ pc = "setup_sync"
    /\ Call("syncClockToRTC", AfterSetupStep("setup_sync"))
    /\ NoDelay
    /\ UNCHANGED <<sketch, currentMode, dials, scratch, locals, servos, homeRead,
                   hourSteps, syncGhost, rtcWrites, atPress, presses>>

\* ------------------------------------------------------------ homing
\* Mutant: the switch polarity is inverted (active high).
HomeSwitchOpen_Inverted(v) == v = LOW
\* The homing loop keeps running while the home switch reads HIGH (open).
HomeSwitchOpen(v) == v = HIGH

\* Mutant: homing gives up on a switch that still reads open and returns.
GoHomeMinuteRun_GivesUp ==
    /\ pc = "goHomeMinute"
    /\ \E v \in {HIGH, LOW} :
          /\ HomeSwitchOpen(v)
          /\ homeRead' = [homeRead EXCEPT !.minute = v]
    /\ servoMinute' = SERVO_STOP_POSITION
    /\ Delay(HomingDelay(sketch))
    /\ Return
    /\ UNCHANGED <<sketch, currentMode, dials, scratch, locals, servoHour,
                   hourSteps, syncGhost, rtcWrites, atPress, presses>>

\* while (digitalRead(HOME_MINUTE) == HIGH) { servoMinute.write(STOP + OFFSET); delay(); }
GoHomeMinuteRun ==
    /\ pc = "goHomeMinute"
    /\ \E v \in {HIGH, LOW} :
          /\ HomeSwitchOpen(v)
          /\ homeRead' = [homeRead EXCEPT !.minute = v]
    /\ servoMinute' = SERVO_STOP_POSITION + SERVO_MOVE_OFFSET_MINUTE(sketch)
    /\ Delay(HomingDelay(sketch))
    /\ UNCHANGED <<sketch, pc, stack, currentMode, dials, scratch, locals, servoHour,
                   hourSteps, syncGhost, rtcWrites, atPress, presses>>

\* servoMinute.write(STOP); currentMinuteOnClock = 0; (delay(500);)
GoHomeMinuteDone ==
    /\ pc = "goHomeMinute"
    /\ \E v \in {HIGH, LOW} :
          /\ ~HomeSwitchOpen(v)
          /\ homeRead' = [homeRead EXCEPT !.minute = v]
    /\ servoMinute' = SERVO_STOP_POSITION
    /\ currentMinuteOnClock' = HomePosition
    /\ minuteCalls' = 0
    /\ Delay(HomedDelay(sketch))
    /\ Return
    /\ UNCHANGED <<sketch, currentMode, currentHourOnClock, hourCalls, scratch, locals,
                   servoHour, hourSteps, syncGhost, rtcWrites, atPress, presses>>

\* Mutant: homing drives the hour servo the other way round.
GoHomeHourRun_Reverse ==
    /\ pc = "goHomeHour"
    /\ \E v \in {HIGH, LOW} :
          /\ HomeSwitchOpen(v)
          /\ homeRead' = [homeRead EXCEPT !.hour = v]
    /\ servoHour' = SERVO_STOP_POSITION - SERVO_MOVE_OFFSET_HOUR(sketch)
    /\ Delay(HomingDelay(sketch))
    /\ UNCHANGED <<sketch, pc, stack, currentMode, dials, scratch, locals, servoMinute,
                   hourSteps, syncGhost, rtcWrites, atPress, presses>>

GoHomeHourRun ==
    /\ pc = "goHomeHour"
    /\ \E v \in {HIGH, LOW} :
          /\ HomeSwitchOpen(v)
          /\ homeRead' = [homeRead EXCEPT !.hour = v]
    /\ servoHour' = SERVO_STOP_POSITION + SERVO_MOVE_OFFSET_HOUR(sketch)
    /\ Delay(HomingDelay(sketch))
    /\ UNCHANGED <<sketch, pc, stack, currentMode, dials, scratch, locals, servoMinute,
                   hourSteps, syncGhost, rtcWrites, atPress, presses>>

GoHomeHourDone ==
    /\ pc = "goHomeHour"
    /\ \E v \in {HIGH, LOW} :
          /\ ~HomeSwitchOpen(v)
          /\ homeRead' = [homeRead EXCEPT !.hour = v]
    /\ servoHour' = SERVO_STOP_POSITION
    /\ currentHourOnClock' = HomePosition
    /\ hourCalls' = 0
    /\ Delay(HomedDelay(sketch))
    /\ Return
    /\ UNCHANGED <<sketch, currentMode, currentMinuteOnClock, minuteCalls, scratch,
                   locals, servoMinute, hourSteps, syncGhost, rtcWrites, atPress,
                   presses>>

\* ------------------------------------------------------------ moveMinuteStep()
\* servoMinute.write(STOP + OFFSET);
MoveMinuteStepStart ==
    /\ pc = "moveMinuteStep"
    /\ servoMinute' = SERVO_STOP_POSITION + SERVO_MOVE_OFFSET_MINUTE(sketch)
    /\ Goto("mms_wait_press")
    /\ NoDelay
    /\ UNCHANGED <<sketch, currentMode, dials, scratch, locals, servoHour, homeRead,
                   hourSteps, syncGhost, rtcWrites, atPress, presses>>

\* while (digitalRead(STEP_MINUTE) == HIGH) { delay(10); }   read HIGH
MoveMinuteStepPollPress ==
    /\ pc = "mms_wait_press"
    /\ Delay(10)
    /\ UNCHANGED <<sketch, pc, stack, currentMode, dials, scratch, locals, servos,
                   homeRead, hourSteps, syncGhost, rtcWrites, atPress, presses>>

\* Mutant: the step ends as soon as the switch reads pressed, without the
\* wait for its release.
MoveMinuteStepPressed_NoReleaseWait ==
    /\ pc = "mms_wait_press"
    /\ servoMinute' = SERVO_STOP_POSITION
    /\ currentMinuteOnClock' = NextMinute(currentMinuteOnClock)
    /\ minuteCalls' = minuteCalls + 1
    /\ syncDone' = IF Head(stack) = "sync_minute"
                   THEN [syncDone EXCEPT !.minute = @ + 1] ELSE syncDone
    /\ Return
    /\ NoDelay
    /\ UNCHANGED <<sketch, currentMode, currentHourOnClock, hourCalls, scratch, locals,
                   servoHour, homeRead, hourSteps, syncPlan, rtcWrites, atPress,
                   presses>>

\* the same loop, read LOW: the switch is pressed
MoveMinuteStepPressed ==
    /\ pc = "mms_wait_press"
    /\ Goto("mms_wait_release")
    /\ NoDelay
    /\ UNCHANGED <<sketch, currentMode, dials, scratch, locals, servos, homeRead,
                   hourSteps, syncGhost, rtcWrites, atPress, presses>>

\* while (digitalRead(STEP_MINUTE) == LOW) { delay(10); }   read LOW
MoveMinuteStepPollRelease ==
    /\ pc = "mms_wait_release"
    /\ Delay(10)
    /\ UNCHANGED <<sketch, pc, stack, currentMode, dials, scratch, locals, servos,
                   homeRead, hourSteps, syncGhost, rtcWrites, atPress, presses>>

\* Mutant: a minute wrap from 59 to 0 carries into the hour counter.
MoveMinuteStepDone_CarriesHour ==
    /\ pc = "mms_wait_release"
    /\ servoMinute' = SERVO_STOP_POSITION
    /\ currentMinuteOnClock' = NextMinute(currentMinuteOnClock)
    /\ currentHourOnClock' = IF currentMinuteOnClock = MinutesPerDial - 1
                             THEN NextHour(currentHourOnClock)
                             ELSE currentHourOnClock
    /\ minuteCalls' = minuteCalls + 1
    /\ syncDone' = IF Head(stack) = "sync_minute"
                   THEN [syncDone EXCEPT !.minute = @ + 1] ELSE syncDone
    /\ Return
    /\ NoDelay
    /\ UNCHANGED <<sketch, currentMode, hourCalls, scratch, locals,
                   servoHour, homeRead, hourSteps, syncPlan, rtcWrites, atPress,
                   presses>>

\* read HIGH: released.  servoMinute.write(STOP); counter = (counter + 1) % 60;
MoveMinuteStepDone ==
    /\ pc = "mms_wait_release"
    /\ servoMinute' = SERVO_STOP_POSITION
    /\ currentMinuteOnClock' = NextMinute(currentMinuteOnClock)
    /\ minuteCalls' = minuteCalls + 1
    /\ syncDone' = IF Head(stack) = "sync_minute"
                   THEN [syncDone EXCEPT !.minute = @ + 1] ELSE syncDone
    /\ Return
    /\ NoDelay
    /\ UNCHANGED <<sketch, currentMode, currentHourOnClock, hourCalls, scratch, locals,
                   servoHour, homeRead, hourSteps, syncPlan, rtcWrites, atPress,
                   presses>>

\* ------------------------------------------------------------ performHourSingleStep()
PerformHourSingleStepStart ==
    /\ pc = "performHourSingleStep"
    /\ servoHour' = SERVO_STOP_POSITION + SERVO_MOVE_OFFSET_HOUR(sketch)
    /\ Goto("phs_wait_press")
    /\ NoDelay
    /\ UNCHANGED <<sketch, currentMode, dials, scratch, locals, servoMinute, homeRead,
                   hourSteps, syncGhost, rtcWrites, atPress, presses>>

PerformHourSingleStepPollPress ==
    /\ pc = "phs_wait_press"
    /\ Delay(10)
    /\ UNCHANGED <<sketch, pc, stack, currentMode, dials, scratch, locals, servos,
                   homeRead, hourSteps, syncGhost, rtcWrites, atPress, presses>>

PerformHourSingleStepPressed ==
    /\ pc = "phs_wait_press"
    /\ Goto("phs_wait_release")
    /\ NoDelay
    /\ UNCHANGED <<sketch, currentMode, dials, scratch, locals, servos, homeRead,
                   hourSteps, syncGhost, rtcWrites, atPress, presses>>

PerformHourSingleStepPollRelease ==
    /\ pc = "phs_wait_release"
    /\ Delay(10)
    /\ UNCHANGED <<sketch, pc, stack, currentMode, dials, scratch, locals, servos,
                   homeRead, hourSteps, syncGhost, rtcWrites, atPress, presses>>

\* Mutant: the hour step returns without writing the stop position.
PerformHourSingleStepDone_KeepsRunning ==
    /\ pc = "phs_wait_release"
    /\ hourSteps' = hourSteps + 1
    /\ Return
    /\ NoDelay
    /\ UNCHANGED <<sketch, currentMode, dials, scratch, locals, servos, homeRead,
                   syncGhost, rtcWrites, atPress, presses>>

\* read HIGH: released.  servoHour.write(STOP);
PerformHourSingleStepDone ==
    /\ pc = "phs_wait_release"
    /\ servoHour' = SERVO_STOP_POSITION
    /\ hourSteps' = hourSteps + 1
    /\ Return
    /\ NoDelay
    /\ UNCHANGED <<sketch, currentMode, dials, scratch, locals, servoMinute, homeRead,
                   syncGhost, rtcWrites, atPress, presses>>

\* ------------------------------------------------------------ moveHourToNext()
\* Mutant: one physical step per hour (the second performHourSingleStep is lost).
MoveHourToNextFirst_OneStep ==
    /\ pc = "moveHourToNext"
    /\ hourSteps' = 0
    /\ Call("performHourSingleStep", "mhn_inc")
    /\ NoDelay
    /\ UNCHANGED <<sketch, currentMode, dials, scratch, locals, servos, homeRead,
                   syncGhost, rtcWrites, atPress, presses>>

\* performHourSingleStep();
MoveHourToNextFirst ==
    /\ pc = "moveHourToNext"
    /\ hourSteps' = 0
    /\ Call("performHourSingleStep", "mhn_delay")
    /\ NoDelay
    /\ UNCHANGED <<sketch, currentMode, dials, scratch, locals, servos, homeRead,
                   syncGhost, rtcWrites, atPress, presses>>

\* delay(100); performHourSingleStep();
MoveHourToNextSecond ==
    /\ pc = "mhn_delay"
    /\ Delay(100)
    /\ Call("performHourSingleStep", "mhn_inc")
    /\ UNCHANGED <<sketch, currentMode, dials, scratch, locals, servos, homeRead,
                   hourSteps, syncGhost, rtcWrites, atPress, presses>>

\* currentHourOnClock = (currentHourOnClock + 1) % 24;
MoveHourToNextInc ==
    /\ pc = "mhn_inc"
    /\ currentHourOnClock' = NextHour(currentHourOnClock)
    /\ hourCalls' = hourCalls + 1
    /\ hourSteps' = 0
    /\ syncDone' = IF Head(stack) = "sync_hour"
                   THEN [syncDone EXCEPT !.hour = @ + 1] ELSE syncDone
    /\ Return
    /\ NoDelay
    /\ UNCHANGED <<sketch, currentMode, currentMinuteOnClock, minuteCalls, scratch,
                   locals, servos, homeRead, syncPlan, rtcWrites, atPress, presses>>

\* ------------------------------------------------------------ syncClockToRTC()
\* DateTime now = rtc.now(); actualMinute = now.minute(); actualHour = now.hour();
SyncRead ==
    /\ pc = "syncClockToRTC"
    /\ actualHour' = timeSource.hour
    /\ actualMinute' = timeSource.minute
    /\ syncPlan' = [hour |-> ModDiff(timeSource.hour, currentHourOnClock, HoursPerDial),
                    minute |-> ModDiff(timeSource.minute, currentMinuteOnClock,
                                       MinutesPerDial)]
    /\ syncDone' = [hour |-> 0, minute |-> 0]
    /\ Goto("sync_hour")
    /\ NoDelay
    /\ UNCHANGED <<sketch, currentMode, dials, scratch, servos, homeRead, hourSteps,
                   rtcWrites, atPress, presses>>

\* while (currentHourOnClock != actualHour)
SyncHourDiffers == currentHourOnClock # actualHour

\* Mutant: the minute loop compares with < and so never steps through the wrap.
SyncMinuteDiffers_LessThan == currentMinuteOnClock < actualMinute
\* while (currentMinuteOnClock != actualMinute)
SyncMinuteDiffers == currentMinuteOnClock # actualMinute

\* while (currentHourOnClock != actualHour) moveHourToNext();
SyncHourAdvance ==
    /\ pc = "sync_hour"
    /\ SyncHourDiffers
    /\ Call("moveHourToNext", "sync_hour")
    /\ NoDelay
    /\ UNCHANGED <<sketch, currentMode, dials, scratch, locals, servos, homeRead,
                   hourSteps, syncGhost, rtcWrites, atPress, presses>>

SyncHourReached ==
    /\ pc = "sync_hour"
    /\ ~SyncHourDiffers
    /\ Goto("sync_minute")
    /\ NoDelay
    /\ UNCHANGED <<sketch, currentMode, dials, scratch, locals, servos, homeRead,
                   hourSteps, syncGhost, rtcWrites, atPress, presses>>

\* while (currentMinuteOnClock != actualMinute) moveMinuteStep();
SyncMinuteAdvance ==
    /\ pc = "sync_minute"
    /\ SyncMinuteDiffers
    /\ Call("moveMinuteStep", "sync_minute")
    /\ NoDelay
    /\ UNCHANGED <<sketch, currentMode, dials, scratch, locals, servos, homeRead,
                   hourSteps, syncGhost, rtcWrites, atPress, presses>>

SyncMinuteReached ==
    /\ pc = "sync_minute"
    /\ ~SyncMinuteDiffers
    /\ Goto("sync_end")
    /\ NoDelay
    /\ UNCHANGED <<sketch, currentMode, dials, scratch, locals, servos, homeRead,
                   hourSteps, syncGhost, rtcWrites, atPress, presses>>

\* syncClockToRTC returns
SyncReturn ==
    /\ pc = "sync_end"
    /\ syncPlan' = [hour |-> 0, minute |-> 0]
    /\ syncDone' = [hour |-> 0, minute |-> 0]
    /\ Return
    /\ NoDelay
    /\ UNCHANGED <<sketch, currentMode, dials, scratch, locals, servos, homeRead,
                   hourSteps, rtcWrites, atPress, presses>>

\* ------------------------------------------------------------ loop(), RTC sketches
\* handleButtons();
LoopHandleButtons ==
    /\ pc = "loop"
    /\ sketch \in RTCSketches
    /\ Call("handleButtons", "loop_mode")
    /\ NoDelay
    /\ UNCHANGED <<sketch, currentMode, dials, scratch, locals, servos, homeRead,
                   hourSteps, syncGhost, rtcWrites, atPress, presses>>

\* if (currentMode == NORMAL_MODE) { syncClockToRTC(); ...
LoopNormal ==
    /\ pc = "loop_mode"
    /\ currentMode = NORMAL_MODE
    /\ Call("syncClockToRTC", "loop_delay")
    /\ NoDelay
    /\ UNCHANGED <<sketch, currentMode, dials, scratch, locals, servos, homeRead,
                   hourSteps, syncGhost, rtcWrites, atPress, presses>>

\* ... delay(1000); }
LoopNormalDelay ==
    /\ pc = "loop_delay"
    /\ Delay(1000)
    /\ Goto("loop")
    /\ UNCHANGED <<sketch, currentMode, dials, scratch, locals, servos, homeRead,
                   hourSteps, syncGhost, rtcWrites, atPress, presses>>

\* Mutant: loop() syncs the display in SETTING mode too.
LoopSetting_Syncs ==
    /\ pc = "loop_mode"
    /\ currentMode # NORMAL_MODE
    /\ Call("syncClockToRTC", "loop_delay")
    /\ NoDelay
    /\ UNCHANGED <<sketch, currentMode, dials, scratch, locals, servos, homeRead,
                   hourSteps, syncGhost, rtcWrites, atPress, presses>>

\* else { delay(50); }
LoopSetting ==
    /\ pc = "loop_mode"
    /\ currentMode # NORMAL_MODE
    /\ Delay(50)
    /\ Goto("loop")
    /\ UNCHANGED <<sketch, currentMode, dials, scratch, locals, servos, homeRead,
                   hourSteps, syncGhost, rtcWrites, atPress, presses>>

\* ------------------------------------------------------------ loop(), WiFi sketch
\* timeClient.update(); actualMinute = getMinutes(); actualHour = getHours();
WifiLoopRead ==
    /\ pc = "loop"
    /\ sketch = WIFI
    /\ actualMinute' = timeSource.minute
    /\ actualHour' = timeSource.hour
    /\ Goto("wloop_minute")
    /\ NoDelay
    /\ UNCHANGED <<sketch, currentMode, dials, scratch, servos, homeRead, hourSteps,
                   syncGhost, rtcWrites, atPress, presses>>

\* if (currentMinuteOnClock != actualMinute) moveMinuteStep();
WifiLoopMinuteStep ==
    /\ pc = "wloop_minute"
    /\ currentMinuteOnClock # actualMinute
    /\ Call("moveMinuteStep", "wloop_hour")
    /\ NoDelay
    /\ UNCHANGED <<sketch, currentMode, dials, scratch, locals, servos, homeRead,
                   hourSteps, syncGhost, rtcWrites, atPress, presses>>

WifiLoopMinuteSame ==
    /\ pc = "wloop_minute"
    /\ currentMinuteOnClock = actualMinute
    /\ Goto("wloop_hour")
    /\ NoDelay
    /\ UNCHANGED <<sketch, currentMode, dials, scratch, locals, servos, homeRead,
                   hourSteps, syncGhost, rtcWrites, atPress, presses>>

\* if (currentHourOnClock != actualHour) moveHourToNext();
WifiLoopHourAdvance ==
    /\ pc = "wloop_hour"
    /\ currentHourOnClock # actualHour
    /\ Call("moveHourToNext", "wloop_delay")
    /\ NoDelay
    /\ UNCHANGED <<sketch, currentMode, dials, scratch, locals, servos, homeRead,
                   hourSteps, syncGhost, rtcWrites, atPress, presses>>

WifiLoopHourSame ==
    /\ pc = "wloop_hour"
    /\ currentHourOnClock = actualHour
    /\ Goto("wloop_delay")
    /\ NoDelay
    /\ UNCHANGED <<sketch, currentMode, dials, scratch, locals, servos, homeRead,
                   hourSteps, syncGhost, rtcWrites, atPress, presses>>

\* delay(1000);
WifiLoopDelay ==
    /\ pc = "wloop_delay"
    /\ Delay(1000)
    /\ Goto("loop")
    /\ UNCHANGED <<sketch, currentMode, dials, scratch, locals, servos, homeRead,
                   hourSteps, syncGhost, rtcWrites, atPress, presses>>

\* ------------------------------------------------------------ handleButtons()
\* Where control goes after the handling of one button in SETTING mode: the
\* first sketch chains the four tests with else-if, the second one tests each
\* button in turn with a separate if.
AfterButton(sk, nextTest) == IF sk = RTC_PCF8574 THEN "hb_end" ELSE nextTest

\* Mutant: hour and minute are handed over in the wrong order.
SavedTime_Swapped(h, m) == <<m, h, 0>>
\* The DateTime handed to rtc.adjust on save: (.., settingHour, settingMinute, 0).
SavedTime(h, m) == <<h, m, 0>>

\* if (millis() - lastButtonPressTime < debounceDelay) return;
HandleButtonsCooldown ==
    /\ pc = "handleButtons"
    /\ sincePress < debounceDelay
    /\ Goto("hb_end")
    /\ NoDelay
    /\ UNCHANGED <<sketch, currentMode, dials, scratch, locals, servos, homeRead,
                   hourSteps, syncGhost, rtcWrites, atPress, presses>>

\* Mutant: the scratch values are loaded from the dial counters, not the RTC.
HandleButtonsEnterSetting_LoadsDial ==
    /\ pc = "handleButtons"
    /\ sincePress >= debounceDelay
    /\ currentMode = NORMAL_MODE
    /\ presses < MaxPresses
    /\ presses' = presses + 1
    /\ atPress' = Press("mode")
    /\ sincePress' = 0
    /\ currentMode' = SETTING_MODE
    /\ settingHour' = currentHourOnClock
    /\ settingMinute' = currentMinuteOnClock
    /\ Goto("hb_end")
    /\ UNCHANGED <<sketch, dials, locals, servos, homeRead, hourSteps, syncGhost,
                   rtcWrites, timeSource, ticks>>

\* NORMAL_MODE, digitalRead(PIN_BTN_MODE_CANCEL) == LOW
HandleButtonsEnterSetting ==
    /\ pc = "handleButtons"
    /\ sincePress >= debounceDelay
    /\ currentMode = NORMAL_MODE
    /\ presses < MaxPresses
    /\ presses' = presses + 1
    /\ atPress' = Press("mode")
    /\ sincePress' = 0
    /\ currentMode' = SETTING_MODE
    /\ settingHour' = timeSource.hour
    /\ settingMinute' = timeSource.minute
    /\ Goto("hb_end")
    /\ UNCHANGED <<sketch, dials, locals, servos, homeRead, hourSteps, syncGhost,
                   rtcWrites, timeSource, ticks>>

\* Mutant: the NORMAL branch records a press time whatever it has read.
HandleButtonsNormalIdle_Restarts ==
    /\ pc = "handleButtons"
    /\ sincePress >= debounceDelay
    /\ currentMode = NORMAL_MODE
    /\ Goto("hb_end")
    /\ sincePress' = 0
    /\ UNCHANGED <<sketch, currentMode, dials, scratch, locals, servos, homeRead,
                   hourSteps, syncGhost, rtcWrites, atPress, presses, timeSource, ticks>>

\* NORMAL_MODE, the mode button reads HIGH: nothing happens
HandleButtonsNormalIdle ==
    /\ pc = "handleButtons"
    /\ sincePress >= debounceDelay
    /\ currentMode = NORMAL_MODE
    /\ Goto("hb_end")
    /\ NoDelay
    /\ UNCHANGED <<sketch, currentMode, dials, scratch, locals, servos, homeRead,
                   hourSteps, syncGhost, rtcWrites, atPress, presses>>

\* else { // SETTING_MODE
HandleButtonsSettingMode ==
    /\ pc = "handleButtons"
    /\ sincePress >= debounceDelay
    /\ currentMode # NORMAL_MODE
    /\ Goto("hb_hour")
    /\ NoDelay
    /\ UNCHANGED <<sketch, currentMode, dials, scratch, locals, servos, homeRead,
                   hourSteps, syncGhost, rtcWrites, atPress, presses>>

\* Mutant: the hour button makes one physical step instead of one hour advance.
HandleButtonsHourInc_SingleStep ==
    /\ pc = "hb_hour"
    /\ presses < MaxPresses
    /\ presses' = presses + 1
    /\ atPress' = Press("hour")
    /\ sincePress' = 0
    /\ settingHour' = NextSettingHour(settingHour)
    /\ Call("performHourSingleStep", AfterButton(sketch, "hb_minute"))
    /\ UNCHANGED <<sketch, currentMode, dials, settingMinute, locals, servos, homeRead,
                   hourSteps, syncGhost, rtcWrites, timeSource, ticks>>

\* Mutant: the hour branch forgets lastButtonPressTime = millis().
HandleButtonsHourInc_NoRestart ==
    /\ pc = "hb_hour"
    /\ presses < MaxPresses
    /\ presses' = presses + 1
    /\ atPress' = Press("hour")
    /\ settingHour' = NextSettingHour(settingHour)
    /\ Call("moveHourToNext", AfterButton(sketch, "hb_minute"))
    /\ UNCHANGED <<sketch, currentMode, dials, settingMinute, locals, servos, homeRead,
                   hourSteps, syncGhost, rtcWrites, timeSource, ticks, sincePress>>

\* digitalRead(PIN_BTN_HOUR_INC) == LOW
HandleButtonsHourInc ==
    /\ pc = "hb_hour"
    /\ presses < MaxPresses
    /\ presses' = presses + 1
    /\ atPress' = Press("hour")
    /\ sincePress' = 0
    /\ settingHour' = NextSettingHour(settingHour)
    /\ Call("moveHourToNext", AfterButton(sketch, "hb_minute"))
    /\ UNCHANGED <<sketch, currentMode, dials, settingMinute, locals, servos, homeRead,
                   hourSteps, syncGhost, rtcWrites, timeSource, ticks>>

HandleButtonsHourIdle ==
    /\ pc = "hb_hour"
    /\ Goto("hb_minute")
    /\ NoDelay
    /\ UNCHANGED <<sketch, currentMode, dials, scratch, locals, servos, homeRead,
                   hourSteps, syncGhost, rtcWrites, atPress, presses>>

\* Mutant: every minute increment is committed to the RTC at once.
HandleButtonsMinuteInc_WritesRtc ==
    /\ pc = "hb_minute"
    /\ presses < MaxPresses
    /\ presses' = presses + 1
    /\ atPress' = Press("minute")
    /\ sincePress' = 0
    /\ settingMinute' = NextSettingMinute(settingMinute)
    /\ lastAdjust' = <<settingHour, settingMinute', 0>>
    /\ timeSource' = [hour |-> settingHour, minute |-> settingMinute']
    /\ adjusts' = adjusts + 1
    /\ Call("moveMinuteStep", AfterButton(sketch, "hb_save"))
    /\ UNCHANGED <<sketch, currentMode, dials, settingHour, locals, servos, homeRead,
                   hourSteps, syncGhost, ticks>>

\* digitalRead(PIN_BTN_MINUTE_INC) == LOW
HandleButtonsMinuteInc ==
    /\ pc = "hb_minute"
    /\ presses < MaxPresses
    /\ presses' = presses + 1
    /\ atPress' = Press("minute")
    /\ sincePress' = 0
    /\ settingMinute' = NextSettingMinute(settingMinute)
    /\ Call("moveMinuteStep", AfterButton(sketch, "hb_save"))
    /\ UNCHANGED <<sketch, currentMode, dials, settingHour, locals, servos, homeRead,
                   hourSteps, syncGhost, rtcWrites, timeSource, ticks>>

HandleButtonsMinuteIdle ==
    /\ pc = "hb_minute"
    /\ Goto("hb_save")
    /\ NoDelay
    /\ UNCHANGED <<sketch, currentMode, dials, scratch, locals, servos, homeRead,
                   hourSteps, syncGhost, rtcWrites, atPress, presses>>

\* digitalRead(PIN_BTN_SAVE) == LOW: rtc.adjust(...); currentMode = NORMAL_MODE;
HandleButtonsSave ==
    /\ pc = "hb_save"
    /\ presses < MaxPresses
    /\ presses' = presses + 1
    /\ atPress' = Press("save")
    /\ sincePress' = 0
    /\ lastAdjust' = SavedTime(settingHour, settingMinute)
    /\ timeSource' = [hour |-> lastAdjust'[1], minute |-> lastAdjust'[2]]
    /\ adjusts' = adjusts + 1
    /\ currentMode' = NORMAL_MODE
    /\ Goto(AfterButton(sketch, "hb_cancel"))
    /\ UNCHANGED <<sketch, dials, scratch, locals, servos, homeRead, hourSteps,
                   syncGhost, ticks>>

HandleButtonsSaveIdle ==
    /\ pc = "hb_save"
    /\ Goto("hb_cancel")
    /\ NoDelay
    /\ UNCHANGED <<sketch, currentMode, dials, scratch, locals, servos, homeRead,
                   hourSteps, syncGhost, rtcWrites, atPress, presses>>

\* Mutant: cancel goes back to NORMAL mode without re-syncing the display.
HandleButtonsCancel_NoSync ==
    /\ pc = "hb_cancel"
    /\ presses < MaxPresses
    /\ presses' = presses + 1
    /\ atPress' = Press("cancel")
    /\ sincePress' = 0
    /\ currentMode' = NORMAL_MODE
    /\ Goto("hb_end")
    /\ UNCHANGED <<sketch, dials, scratch, locals, servos, homeRead, hourSteps,
                   syncGhost, rtcWrites, timeSource, ticks>>

\* digitalRead(PIN_BTN_MODE_CANCEL) == LOW: currentMode = NORMAL_MODE; syncClockToRTC();
HandleButtonsCancel ==
    /\ pc = "hb_cancel"
    /\ presses < MaxPresses
    /\ presses' = presses + 1
    /\ atPress' = Press("cancel")
    /\ sincePress' = 0
    /\ currentMode' = NORMAL_MODE
    /\ Call("syncClockToRTC", "hb_end")
    /\ UNCHANGED <<sketch, dials, scratch, locals, servos, homeRead, hourSteps,
                   syncGhost, rtcWrites, timeSource, ticks>>

HandleButtonsCancelIdle ==
    /\ pc = "hb_cancel"
    /\ Goto("hb_end")
    /\ NoDelay
    /\ UNCHANGED <<sketch, currentMode, dials, scratch, locals, servos, homeRead,
                   hourSteps, syncGhost, rtcWrites, atPress, presses>>

\* handleButtons returns
HandleButtonsReturn ==
    /\ pc = "hb_end"
    /\ atPress' = NoPress
    /\ Return
    /\ NoDelay
    /\ UNCHANGED <<sketch, currentMode, dials, scratch, locals, servos, homeRead,
                   hourSteps, syncGhost, rtcWrites, presses>>

\* ------------------------------------------------------------ specification
Setup ==
    \/ SetupRtcBegin
    \/ Halt
    \/ SetupLostPower
    \/ SetupAttach
    \/ SetupWifi
    \/ SetupNtp
    \/ SetupHomeHour
    \/ SetupHomeMinute
    \/ SetupSync

Homing ==
    \/ GoHomeMinuteRun
    \/ GoHomeMinuteDone
    \/ GoHomeHourRun
    \/ GoHomeHourDone

Stepping ==
    \/ MoveMinuteStepStart
    \/ MoveMinuteStepPollPress
    \/ MoveMinuteStepPressed
    \/ MoveMinuteStepPollRelease
    \/ MoveMinuteStepDone
    \/ PerformHourSingleStepStart
    \/ PerformHourSingleStepPollPress
    \/ PerformHourSingleStepPressed
    \/ PerformHourSingleStepPollRelease
    \/ PerformHourSingleStepDone
    \/ MoveHourToNextFirst
    \/ MoveHourToNextSecond
    \/ MoveHourToNextInc

Sync ==
    \/ SyncRead
    \/ SyncHourAdvance
    \/ SyncHourReached
    \/ SyncMinuteAdvance
    \/ SyncMinuteReached
    \/ SyncReturn

Loop ==
    \/ LoopHandleButtons
    \/ LoopNormal
    \/ LoopNormalDelay
    \/ LoopSetting
    \/ WifiLoopRead
    \/ WifiLoopMinuteStep
    \/ WifiLoopMinuteSame
    \/ WifiLoopHourAdvance
    \/ WifiLoopHourSame
    \/ WifiLoopDelay

Buttons ==
    \/ HandleButtonsCooldown
    \/ HandleButtonsEnterSetting
    \/ HandleButtonsNormalIdle
    \/ HandleButtonsSettingMode
    \/ HandleButtonsHourInc
    \/ HandleButtonsHourIdle
    \/ HandleButtonsMinuteInc
    \/ HandleButtonsMinuteIdle
    \/ HandleButtonsSave
    \/ HandleButtonsSaveIdle
    \/ HandleButtonsCancel
    \/ HandleButtonsCancelIdle
    \/ HandleButtonsReturn

Next == Setup \/ Homing \/ Stepping \/ Sync \/ Loop \/ Buttons

Spec == Init /\ [][Next]_vars

\* The steps a running step function or sync takes when the step switch it
\* polls keeps cycling pressed/released while its motor runs: every step but
\* the two polls that read the switch unchanged.
StepProgress ==
    \/ MoveMinuteStepStart
    \/ MoveMinuteStepPressed
    \/ MoveMinuteStepDone
    \/ PerformHourSingleStepStart
    \/ PerformHourSingleStepPressed
    \/ PerformHourSingleStepDone
    \/ MoveHourToNextFirst
    \/ MoveHourToNextSecond
    \/ MoveHourToNextInc
    \/ Sync

LiveSpec == Spec /\ WF_vars(StepProgress)

\* The statements of the WiFi sketch's loop(), none of which waits for anything.
WifiLoop ==
    \/ WifiLoopRead
    \/ WifiLoopMinuteStep
    \/ WifiLoopMinuteSame
    \/ WifiLoopHourAdvance
    \/ WifiLoopHourSame
    \/ WifiLoopDelay

\* The WiFi sketch's loop keeps running and the step switches keep cycling.
WifiLiveSpec == Spec /\ WF_vars(StepProgress) /\ WF_vars(WifiLoop)

InHandleButtons == pc \in {"hb_hour", "hb_minute", "hb_save", "hb_cancel", "hb_end"}

TypeOK ==
    /\ sketch \in Sketches
    /\ currentMode \in {NORMAL_MODE, SETTING_MODE}
    /\ sincePress \in 0..debounceDelay
    /\ ticks \in 0..TickBound
    /\ presses \in 0..MaxPresses

\* ------------------------------------------------------------ properties
Homed == currentMinuteOnClock # UNKNOWN /\ currentHourOnClock # UNKNOWN

\* C1: in every reachable state of every sketch currentMinuteOnClock is -1 or
\* in 0..59 and currentHourOnClock is -1 or in 0..23.
C1_CountersInRange ==
    /\ currentMinuteOnClock \in {UNKNOWN} \cup 0..(MinutesPerDial - 1)
    /\ currentHourOnClock \in {UNKNOWN} \cup 0..(HoursPerDial - 1)

\* Both dials have made a full turn and wrapped from the top of the range to 0.
C1_Witness ==
    /\ minuteCalls = MinutesPerDial
    /\ hourCalls = HoursPerDial
    /\ currentMinuteOnClock = 0
    /\ currentHourOnClock = 0

\* C2: when goHomeMinute (goHomeHour) has returned, that dial's home switch
\* was last read pressed (LOW), its servo was last commanded the stop
\* position and its counter is 0; when setup's homing sequence has finished
\* both counters are 0.
C2_HomingPostcondition ==
    /\ pc = AfterSetupStep("setup_home_minute") =>
          /\ homeRead.minute = LOW
          /\ servoMinute = SERVO_STOP_POSITION
          /\ currentMinuteOnClock = 0
    /\ pc = AfterSetupStep("setup_home_hour") =>
          /\ homeRead.hour = LOW
          /\ servoHour = SERVO_STOP_POSITION
          /\ currentHourOnClock = 0
    /\ pc \in {"setup_sync", "setup_ntp"} =>
          /\ currentMinuteOnClock = 0
          /\ currentHourOnClock = 0
          /\ homeRead = [minute |-> LOW, hour |-> LOW]

\* Homing has just finished after the homing loops ran (time has passed in them).
C2_Witness ==
    /\ pc \in {"setup_sync", "setup_ntp"}
    /\ homeRead = [minute |-> LOW, hour |-> LOW]
    /\ currentMinuteOnClock = 0
    /\ currentHourOnClock = 0
    /\ sketch \in RTCSketches
    /\ sincePress > 0

\* C3: after N completed calls of moveMinuteStep since homing (which leaves
\* the counter at 0) currentMinuteOnClock = (0 + N) mod 60, and after N
\* completed calls of moveHourToNext currentHourOnClock = (0 + N) mod 24;
\* likewise from the value c a counter had when a button press was accepted,
\* with N the calls completed since that press.
C3_CounterIsCallsModulo ==
    /\ currentMinuteOnClock # UNKNOWN =>
          currentMinuteOnClock = (HomePosition + minuteCalls) % MinutesPerDial
    /\ currentHourOnClock # UNKNOWN =>
          currentHourOnClock = (HomePosition + hourCalls) % HoursPerDial
    /\ atPress.button # "none" =>
          /\ currentMinuteOnClock
                = (atPress.minute + (minuteCalls - atPress.minuteCalls)) % MinutesPerDial
          /\ currentHourOnClock
                = (atPress.hour + (hourCalls - atPress.hourCalls)) % HoursPerDial

\* More calls than the range holds: the counters have wrapped and gone on.
C3_Witness ==
    /\ minuteCalls > MinutesPerDial
    /\ hourCalls > HoursPerDial
    /\ currentMinuteOnClock = 1
    /\ currentHourOnClock = 1

\* C4: every moveHourToNext performs exactly two complete performHourSingleStep
\* runs and only then increments currentHourOnClock by one modulo 24: after
\* homing the hour counter only changes in moveHourToNext's last statement,
\* with two physical steps completed since the call began, and a physical step
\* completes only from the wait for the released switch.
C4_TwoStepsPerHour ==
    /\ [](/\ pc = "mhn_delay" => hourSteps = 1
          /\ pc = "mhn_inc" => hourSteps = 2
          /\ hourSteps \in 0..2)
    /\ [][currentHourOnClock' # currentHourOnClock /\ currentHourOnClock # UNKNOWN =>
            /\ pc = "mhn_inc"
            /\ hourSteps = 2
            /\ currentHourOnClock' = (currentHourOnClock + 1) % HoursPerDial
            /\ hourCalls' = hourCalls + 1]_vars
    /\ [][hourSteps' = hourSteps + 1 => pc = "phs_wait_release"]_vars

\* The second physical step of an hour advance is complete, the counter (23)
\* not yet incremented.
C4_Witness ==
    /\ pc = "mhn_inc"
    /\ hourSteps = 2
    /\ currentHourOnClock = HoursPerDial - 1

\* C5: in the RTC sketches, after startup the time source is written only
\* while a save press is handled in SETTING mode: rtc.adjust is called only by
\* the save branch, the time source otherwise changes only by running on one
\* minute, and while a mode, hour, minute or cancel press is handled no
\* rtc.adjust has been made since that press was accepted.
C5_OnlySaveWritesRtc ==
    /\ [][adjusts' # adjusts \/ lastAdjust' # lastAdjust =>
            /\ pc = "hb_save"
            /\ currentMode = SETTING_MODE
            /\ atPress'.button = "save"
            /\ adjusts' = adjusts + 1]_vars
    /\ [][timeSource' # timeSource =>
            \/ pc \in {"hb_save", "setup_lost_power"}
            \/ ticks' = ticks + 1 /\ timeSource' = Tick(timeSource)]_vars
    /\ [](atPress.button \in {"mode", "hour", "minute", "cancel"} =>
            adjusts = atPress.adjusts)

\* A cancel has been handled to its end after the scratch hour was changed,
\* and the RTC was never written.
C5_Witness ==
    /\ pc = "hb_end"
    /\ atPress.button = "cancel"
    /\ adjusts = 0
    /\ ticks = 0
    /\ settingHour # timeSource.hour

\* C6: syncClockToRTC reads the time source once (h, m), then makes exactly
\* (h - currentHourOnClock) mod 24 hour advances followed by exactly
\* (m - currentMinuteOnClock) mod 60 minute steps, and, the step switches
\* cycling, it terminates with currentHourOnClock = h, currentMinuteOnClock = m.
C6_SyncReachesTime ==
    /\ [](pc = "sync_hour" =>
            /\ syncDone.minute = 0
            /\ syncDone.hour + ModDiff(actualHour, currentHourOnClock, HoursPerDial)
                 = syncPlan.hour)
    /\ [](pc = "sync_minute" =>
            /\ syncDone.hour = syncPlan.hour
            /\ currentHourOnClock = actualHour
            /\ syncDone.minute
                 + ModDiff(actualMinute, currentMinuteOnClock, MinutesPerDial)
                 = syncPlan.minute)
    /\ [](pc = "sync_end" =>
            /\ syncDone = syncPlan
            /\ currentHourOnClock = actualHour
            /\ currentMinuteOnClock = actualMinute)
    /\ [][(sketch \in RTCSketches /\ pc # "syncClockToRTC") => locals' = locals]_vars
    /\ (pc = "syncClockToRTC" /\ Homed) ~> (pc = "sync_end")

\* A sync that had to bring the hour dial back by going forward through the
\* wrap (23 hour advances, after one hour increment was cancelled) has finished.
C6_Witness ==
    /\ pc = "sync_end"
    /\ syncPlan.hour = HoursPerDial - 1
    /\ syncDone = syncPlan
    /\ currentHourOnClock = 0
    /\ hourCalls = HoursPerDial

\* C7: no multi-step jump or backward motion: once homed, a counter only ever
\* changes from c to (c + 1) mod its range, and each servo's last command is
\* the stop value or the stop value plus that dial's own offset.
C7_ForwardSingleSteps ==
    /\ [](/\ servoMinute \in {NOT_ATTACHED, SERVO_STOP_POSITION,
                              SERVO_STOP_POSITION + SERVO_MOVE_OFFSET_MINUTE(sketch)}
          /\ servoHour \in {NOT_ATTACHED, SERVO_STOP_POSITION,
                            SERVO_STOP_POSITION + SERVO_MOVE_OFFSET_HOUR(sketch)})
    /\ [][currentMinuteOnClock # UNKNOWN /\ currentMinuteOnClock' # currentMinuteOnClock =>
            currentMinuteOnClock' = (currentMinuteOnClock + 1) % MinutesPerDial]_vars
    /\ [][currentHourOnClock # UNKNOWN /\ currentHourOnClock' # currentHourOnClock =>
            currentHourOnClock' = (currentHourOnClock + 1) % HoursPerDial]_vars

\* The hour servo is running for the step that takes the dial from 23 to 0,
\* after the minute dial has already wrapped.
C7_Witness ==
    /\ pc = "phs_wait_release"
    /\ servoHour = SERVO_STOP_POSITION + SERVO_MOVE_OFFSET_HOUR(sketch)
    /\ currentHourOnClock = HoursPerDial - 1
    /\ hourSteps = 1
    /\ minuteCalls >= MinutesPerDial

\* C8: a mode press accepted in NORMAL mode switches to SETTING and loads the
\* hour and minute the time source reports at that moment into settingHour
\* and settingMinute, without moving a dial and without writing the RTC.
C8_EnterSettingLoadsTime ==
    atPress.button = "mode" =>
        /\ pc = "hb_end"
        /\ atPress.mode = NORMAL_MODE
        /\ currentMode = SETTING_MODE
        /\ settingHour = timeSource.hour
        /\ settingMinute = timeSource.minute
        /\ currentHourOnClock = atPress.hour
        /\ currentMinuteOnClock = atPress.minute
        /\ hourCalls = atPress.hourCalls
        /\ minuteCalls = atPress.minuteCalls
        /\ servoMinute = SERVO_STOP_POSITION
        /\ servoHour = SERVO_STOP_POSITION
        /\ adjusts = atPress.adjusts

\* SETTING mode was entered after the RTC had run on past the last sync: the
\* loaded time is not what the dials show.
C8_Witness ==
    /\ atPress.button = "mode"
    /\ pc = "hb_end"
    /\ settingMinute # currentMinuteOnClock
    /\ settingHour # currentHourOnClock

\* C9: in SETTING mode an accepted hour press increments settingHour by one
\* modulo 24 and advances the hour dial by exactly one moveHourToNext, an
\* accepted minute press increments settingMinute by one modulo 60 and
\* advances the minute dial by exactly one moveMinuteStep; the other scratch
\* value and the other dial are untouched and the mode stays SETTING.
C9_IncrementStepsOnce ==
    /\ atPress.button = "hour" =>
          /\ atPress.mode = SETTING_MODE
          /\ currentMode = SETTING_MODE
          /\ settingHour = (atPress.settingHour + 1) % HoursPerDial
          /\ settingMinute = atPress.settingMinute
          /\ currentMinuteOnClock = atPress.minute
          /\ minuteCalls = atPress.minuteCalls
          /\ IF InHandleButtons
             THEN /\ hourCalls = atPress.hourCalls + 1
                  /\ currentHourOnClock = (atPress.hour + 1) % HoursPerDial
             ELSE /\ hourCalls = atPress.hourCalls
                  /\ currentHourOnClock = atPress.hour
    /\ atPress.button = "minute" =>
          /\ atPress.mode = SETTING_MODE
          /\ currentMode = SETTING_MODE
          /\ settingMinute = (atPress.settingMinute + 1) % MinutesPerDial
          /\ settingHour = atPress.settingHour
          /\ currentHourOnClock = atPress.hour
          /\ hourCalls = atPress.hourCalls
          /\ IF InHandleButtons
             THEN /\ minuteCalls = atPress.minuteCalls + 1
                  /\ currentMinuteOnClock = (atPress.minute + 1) % MinutesPerDial
             ELSE /\ minuteCalls = atPress.minuteCalls
                  /\ currentMinuteOnClock = atPress.minute

\* An hour press has been handled to its end and took settingHour from 23 to 0.
C9_Witness ==
    /\ pc = "hb_end"
    /\ atPress.button = "hour"
    /\ atPress.settingHour = HoursPerDial - 1
    /\ settingHour = 0
    /\ hourCalls = atPress.hourCalls + 1

\* C10: in SETTING mode an accepted save press writes the time source with
\* hour settingHour, minute settingMinute and second 0 and then sets the mode
\* to NORMAL; when handleButtons is about to return from a call that saved,
\* the mode is NORMAL and the time last written is the scratch hour and
\* minute (which the time source still reports unless it has since run on
\* over a minute boundary).
C10_SaveCommitsScratch ==
    /\ atPress.button = "save" =>
          /\ atPress.mode = SETTING_MODE
          /\ currentMode = NORMAL_MODE
          /\ settingHour = atPress.settingHour
          /\ settingMinute = atPress.settingMinute
          /\ lastAdjust = <<settingHour, settingMinute, 0>>
          /\ timeSource = [hour |-> settingHour, minute |-> settingMinute]
          /\ adjusts = atPress.adjusts + 1
    /\ pc = "hb_end" /\ atPress.saved # NotSaved =>
          /\ currentMode = NORMAL_MODE
          /\ lastAdjust = <<settingHour, settingMinute, 0>>
          /\ atPress.saved = <<ticks>> =>
                timeSource = [hour |-> settingHour, minute |-> settingMinute]

\* handleButtons is about to return from a save of a time that differs from
\* the time the RTC reported when SETTING mode was entered.
C10_Witness ==
    /\ pc = "hb_end"
    /\ atPress.button = "save"
    /\ ticks = 0
    /\ lastAdjust = <<0, MinutesPerDial - 1, 0>>
    /\ hourCalls = HoursPerDial

\* C11: in SETTING mode an accepted cancel press sets the mode to NORMAL and
\* re-syncs the display: the re-sync reads the time source, and when the
\* handling of the press completes currentHourOnClock and currentMinuteOnClock
\* equal the hour and minute it read, whatever increments were made in the
\* setting session; the scratch values are not changed and not written to the
\* time source.
C11_CancelResyncs ==
    /\ [](atPress.button = "cancel" =>
            /\ currentMode = NORMAL_MODE
            /\ settingHour = atPress.settingHour
            /\ settingMinute = atPress.settingMinute
            /\ adjusts = atPress.adjusts
            /\ pc = "hb_end" =>
                  /\ currentHourOnClock = actualHour
                  /\ currentMinuteOnClock = actualMinute)
    /\ [][(atPress.button = "cancel" /\ pc = "syncClockToRTC") =>
            /\ actualHour' = timeSource.hour
            /\ actualMinute' = timeSource.minute]_vars
    /\ [][(atPress.button = "cancel" /\ timeSource' # timeSource) =>
            ticks' = ticks + 1]_vars
    /\ [][(pc = "hb_cancel" /\ presses' # presses) =>
            /\ pc' = "syncClockToRTC"
            /\ Head(stack') = "hb_end"]_vars

\* A cancel pressed in SETTING mode has been handled to its end: the re-sync
\* moved both dials from where the setting session had left them back to the
\* time the RTC reports, and the scratch values differ from that time.
C11_Witness ==
    /\ pc = "hb_end"
    /\ atPress.button = "cancel"
    /\ atPress.mode = SETTING_MODE
    /\ atPress.hour # currentHourOnClock
    /\ atPress.minute # currentMinuteOnClock
    /\ currentHourOnClock = timeSource.hour
    /\ currentMinuteOnClock = timeSource.minute
    /\ settingHour # timeSource.hour
    /\ settingMinute # timeSource.minute

\* C12: one cooldown is shared by all four buttons: a handleButtons call made
\* less than debounceDelay after the time recorded for the most recently
\* accepted press goes straight to its end and changes nothing (mode, scratch,
\* dials, servos, time source, recorded press time), a call accepts its first
\* press only when the cooldown has run out, and every accepted press of any
\* button restarts the cooldown.
C12_SharedCooldown ==
    /\ [][(pc = "handleButtons" /\ sincePress < debounceDelay) =>
            /\ pc' \in {"handleButtons", "hb_end"}
            /\ UNCHANGED <<currentMode, scratch, dials, servos, rtcWrites, timeSource,
                           sincePress, presses, atPress>>]_vars
    /\ [][(pc = "hb_end" /\ atPress.button = "none") =>
            UNCHANGED <<currentMode, scratch, dials, servos, rtcWrites, timeSource,
                        sincePress, presses, atPress>>]_vars
    /\ [][(pc = "handleButtons" /\ presses' # presses) =>
            sincePress >= debounceDelay]_vars
    /\ [][presses' # presses =>
            /\ sincePress' = 0
            /\ atPress'.button \in {"mode", "hour", "minute", "save", "cancel"}
            /\ pc \in {"handleButtons", "hb_hour", "hb_minute", "hb_save",
                       "hb_cancel"}]_vars
    /\ [][(sincePress' # sincePress /\ presses' = presses) =>
            sincePress' > sincePress]_vars

\* In SETTING mode, less than debounceDelay after a press was accepted, a
\* handleButtons call has been turned away by the cooldown.
C12_Witness ==
    /\ pc = "hb_end"
    /\ Head(stack) = "loop_mode"
    /\ atPress.button = "none"
    /\ presses > 0
    /\ currentMode = SETTING_MODE
    /\ sincePress > 0
    /\ sincePress < debounceDelay

\* C13: a single-step advance starts the dial's motor and keeps it running
\* while it waits for the step switch to read pressed and then to read
\* released; only the released reading that follows a pressed reading stops
\* the motor and (for minutes) increments the counter, so every completed step
\* passes exactly once from the wait for the press to the wait for the release.
C13_StepWaitsBothEdges ==
    /\ [](/\ pc \in {"mms_wait_press", "mms_wait_release"} =>
                servoMinute = SERVO_STOP_POSITION + SERVO_MOVE_OFFSET_MINUTE(sketch)
          /\ pc \in {"phs_wait_press", "phs_wait_release"} =>
                servoHour = SERVO_STOP_POSITION + SERVO_MOVE_OFFSET_HOUR(sketch))
    /\ [][pc = "moveMinuteStep" => pc' \in {"moveMinuteStep", "mms_wait_press"}]_vars
    /\ [][pc = "mms_wait_press" =>
            /\ pc' \in {"mms_wait_press", "mms_wait_release"}
            /\ UNCHANGED <<servoMinute, dials>>]_vars
    /\ [][pc = "mms_wait_release" =>
            \/ pc' = "mms_wait_release" /\ UNCHANGED <<servoMinute, dials>>
            \/ /\ pc' = Head(stack)
               /\ stack' = Tail(stack)
               /\ servoMinute' = SERVO_STOP_POSITION
               /\ minuteCalls' = minuteCalls + 1
               /\ currentMinuteOnClock' = (currentMinuteOnClock + 1) % MinutesPerDial]_vars
    /\ [][(minuteCalls' # minuteCalls /\ pc # "goHomeMinute") =>
            pc = "mms_wait_release"]_vars
    /\ [][pc = "performHourSingleStep" =>
            pc' \in {"performHourSingleStep", "phs_wait_press"}]_vars
    /\ [][pc = "phs_wait_press" =>
            /\ pc' \in {"phs_wait_press", "phs_wait_release"}
            /\ UNCHANGED <<servoHour, hourSteps, dials>>]_vars
    /\ [][pc = "phs_wait_release" =>
            \/ pc' = "phs_wait_release" /\ UNCHANGED <<servoHour, hourSteps, dials>>
            \/ /\ pc' = Head(stack)
               /\ stack' = Tail(stack)
               /\ servoHour' = SERVO_STOP_POSITION
               /\ hourSteps' = hourSteps + 1
               /\ UNCHANGED dials]_vars
    /\ [][(pc' \in {"mms_wait_release", "phs_wait_release"} /\ pc' # pc) =>
            pc \in {"mms_wait_press", "phs_wait_press"}]_vars
    /\ [][(pc' \in {"mms_wait_press", "phs_wait_press"} /\ pc' # pc) =>
            pc \in {"moveMinuteStep", "performHourSingleStep"}]_vars

\* In one pass a minute step has completed (the motor is stopped, the counter
\* went from 59 to 0) and the first physical step of the hour advance that
\* follows has completed too.
C13_Witness ==
    /\ pc = "mhn_delay"
    /\ hourSteps = 1
    /\ servoHour = SERVO_STOP_POSITION
    /\ servoMinute = SERVO_STOP_POSITION
    /\ minuteCalls = MinutesPerDial
    /\ currentMinuteOnClock = 0

\* C14: homing has no timeout: a homing function is left only by a pressed
\* (LOW) reading of its home switch; as long as the switch has only read open
\* the function is still running, its motor is commanded to move and the
\* dial's counter is -1; the display sync and the main loop are reached only
\* after both home switches have read pressed.  Likewise a step function
\* whose step switch reads unchanged stays where it is, and it returns only
\* from the wait for the release.
C14_NoTimeout ==
    /\ [](/\ pc = "goHomeMinute" =>
                /\ currentMinuteOnClock = UNKNOWN
                /\ homeRead.minute # LOW
                /\ homeRead.minute = HIGH =>
                      servoMinute = SERVO_STOP_POSITION + SERVO_MOVE_OFFSET_MINUTE(sketch)
          /\ pc = "goHomeHour" =>
                /\ currentHourOnClock = UNKNOWN
                /\ homeRead.hour # LOW
                /\ homeRead.hour = HIGH =>
                      servoHour = SERVO_STOP_POSITION + SERVO_MOVE_OFFSET_HOUR(sketch))
    /\ [](/\ homeRead.minute # LOW <=> currentMinuteOnClock = UNKNOWN
          /\ homeRead.hour # LOW <=> currentHourOnClock = UNKNOWN)
    /\ [](homeRead # [minute |-> LOW, hour |-> LOW] =>
            /\ pc \in {"setup_rtc_begin", "setup_lost_power", "setup_attach",
                       "setup_wifi", "setup_home_hour", "setup_home_minute", "halt",
                       "goHomeMinute", "goHomeHour"}
            /\ presses = 0
            /\ minuteCalls = 0
            /\ hourCalls = 0)
    /\ [][(pc = "goHomeMinute" /\ pc' # pc) => homeRead'.minute = LOW]_vars
    /\ [][(pc = "goHomeHour" /\ pc' # pc) => homeRead'.hour = LOW]_vars
    /\ [][(pc \in {"mms_wait_press", "mms_wait_release", "phs_wait_press",
                   "phs_wait_release"} /\ pc' = pc) =>
            UNCHANGED <<stack, servos, dials, hourSteps, currentMode>>]_vars
    /\ [][(pc \in {"moveMinuteStep", "mms_wait_press", "mms_wait_release"}
           /\ pc' \notin {"moveMinuteStep", "mms_wait_press", "mms_wait_release"}) =>
            pc = "mms_wait_release"]_vars
    /\ [][(pc \in {"performHourSingleStep", "phs_wait_press", "phs_wait_release"}
           /\ pc' \notin {"performHourSingleStep", "phs_wait_press",
                          "phs_wait_release"}) =>
            pc = "phs_wait_release"]_vars

\* The second homing of an RTC sketch has been running for at least
\* debounceDelay milliseconds with its switch still reading open: the motor
\* is commanded to move and the counter is still -1.
C14_Witness ==
    /\ sketch \in RTCSketches
    /\ pc \in {"goHomeMinute", "goHomeHour"}
    /\ Head(stack) = "setup_sync"
    /\ homeRead[IF pc = "goHomeMinute" THEN "minute" ELSE "hour"] = HIGH
    /\ sincePress = debounceDelay
    /\ \/ currentMinuteOnClock = UNKNOWN /\ currentHourOnClock = 0
       \/ currentHourOnClock = UNKNOWN /\ currentMinuteOnClock = 0

\* C15: in the RTC sketches a failed rtc.begin() puts the program into its
\* halt loop before any homing: the halt loop is entered only from
\* rtc.begin() and never left, and in it no home switch has been read, each
\* servo is unattached or commanded to stop and never written again, both
\* counters are -1, the mode is NORMAL, and no handleButtons or
\* syncClockToRTC call is or has been running.
C15_RtcMissingHalts ==
    /\ [](pc = "halt" =>
            /\ sketch \in RTCSketches
            /\ stack = <<>>
            /\ homeRead = [minute |-> NotRead, hour |-> NotRead]
            /\ servoMinute \in {NOT_ATTACHED, SERVO_STOP_POSITION}
            /\ servoHour \in {NOT_ATTACHED, SERVO_STOP_POSITION}
            /\ servoMinute = NOT_ATTACHED <=> sketch = RTC_PCF8574
            /\ currentMinuteOnClock = UNKNOWN
            /\ currentHourOnClock = UNKNOWN
            /\ currentMode = NORMAL_MODE
            /\ presses = 0
            /\ atPress = NoPress
            /\ adjusts = 0
            /\ locals = <<0, 0>>
            /\ syncPlan = syncDone)
    /\ [][pc = "halt" =>
            /\ pc' = "halt"
            /\ UNCHANGED <<stack, servos, dials, currentMode, scratch, locals,
                           rtcWrites, homeRead, presses, atPress>>]_vars
    /\ [][(pc' = "halt" /\ pc # "halt") => pc = "setup_rtc_begin"]_vars

\* The first sketch has been in its halt loop for debounceDelay milliseconds
\* or more.
C15_Witness ==
    /\ pc = "halt"
    /\ sketch = RTC_PCF8574
    /\ sincePress = debounceDelay
    /\ ticks = MaxTicks

\* C16: in the WiFi sketch a pass of loop() reads the time once, then makes
\* at most one moveMinuteStep, only if the minute counter differs from the
\* minute read, then at most one moveHourToNext, only if the hour counter
\* differs from the hour read, then waits; when the reported time no longer
\* changes and the step switches keep cycling, a pass eventually begins with
\* both counters equal to the reported time; and while both counters equal
\* the reported time and it stays the same, loop() writes no servo and
\* changes no counter.
C16_WifiOneStepPerPass ==
    /\ [][(sketch = WIFI /\ pc = "loop") =>
            \/ pc' = "loop" /\ locals' = locals
            \/ /\ pc' = "wloop_minute"
               /\ actualHour' = timeSource.hour
               /\ actualMinute' = timeSource.minute]_vars
    /\ [][(sketch = WIFI /\ pc # "loop") => locals' = locals]_vars
    /\ [][(sketch = WIFI /\ pc = "wloop_minute") =>
            \/ pc' = "wloop_minute"
            \/ pc' = "wloop_hour" /\ currentMinuteOnClock = actualMinute
            \/ /\ pc' = "moveMinuteStep"
               /\ stack' = <<"wloop_hour">>
               /\ currentMinuteOnClock # actualMinute]_vars
    /\ [][(sketch = WIFI /\ pc = "wloop_hour") =>
            \/ pc' = "wloop_hour"
            \/ pc' = "wloop_delay" /\ currentHourOnClock = actualHour
            \/ /\ pc' = "moveHourToNext"
               /\ stack' = <<"wloop_delay">>
               /\ currentHourOnClock # actualHour]_vars
    /\ [][(sketch = WIFI /\ pc = "wloop_delay") =>
            /\ pc' \in {"wloop_delay", "loop"}
            /\ UNCHANGED <<servos, dials>>]_vars
    /\ [][(sketch = WIFI /\ pc' = "moveMinuteStep") => pc = "wloop_minute"]_vars
    /\ [][(sketch = WIFI /\ pc' = "moveHourToNext") => pc = "wloop_hour"]_vars
    /\ [][(/\ sketch = WIFI
           /\ pc \in {"loop", "wloop_minute", "wloop_hour", "wloop_delay"}
           /\ currentHourOnClock = timeSource.hour
           /\ currentMinuteOnClock = timeSource.minute
           /\ timeSource' = timeSource) =>
            /\ pc' \in {"loop", "wloop_minute", "wloop_hour", "wloop_delay"}
            /\ UNCHANGED <<servos, dials>>]_vars
    /\ (sketch = WIFI /\ pc = "loop" /\ ticks = MaxTicksWifi)
          ~> (/\ pc = "loop"
              /\ currentHourOnClock = timeSource.hour
              /\ currentMinuteOnClock = timeSource.minute)

\* C17: in NORMAL mode only the mode/cancel button does anything: a
\* handleButtons call in NORMAL mode reads no button but the mode button (it
\* never reaches the hour, minute and save tests), the only press it accepts
\* is a mode press, and when it accepts none it goes to its end leaving the
\* mode, the scratch variables, both dial counters, the servos, the time
\* source and the recorded press time unchanged.
C17_NormalModeIgnoresOthers ==
    /\ [][(pc = "handleButtons" /\ currentMode = NORMAL_MODE) =>
            /\ pc' \in {"handleButtons", "hb_end"}
            /\ presses' # presses => atPress'.button = "mode"
            /\ presses' = presses =>
                  UNCHANGED <<currentMode, scratch, dials, servos, timeSource,
                              rtcWrites, sincePress, atPress, stack>>]_vars
    /\ [](pc \in {"hb_hour", "hb_minute", "hb_save"} => currentMode = SETTING_MODE)
    /\ [](atPress.button \in {"hour", "minute", "save"} =>
            atPress.mode = SETTING_MODE)

\* After a setting session that changed the scratch hour, a handleButtons
\* call in NORMAL mode, its cooldown run out, has accepted no press.
C17_Witness ==
    /\ pc = "hb_end"
    /\ Head(stack) = "loop_mode"
    /\ atPress = NoPress
    /\ currentMode = NORMAL_MODE
    /\ sincePress = debounceDelay
    /\ presses > 0
    /\ settingHour # timeSource.hour

\* C18: while the mode is SETTING, syncClockToRTC is never running, loop()'s
\* mode test goes to the short delay only, a dial counter or servo changes
\* only while an accepted hour or minute press is being handled, and so a
\* loop pass in which no press is accepted leaves both counters and both
\* servos unchanged, whatever the time source does meanwhile.
C18_SettingModeNoSync ==
    /\ [](currentMode = SETTING_MODE =>
            /\ pc \notin {"syncClockToRTC", "sync_hour", "sync_minute", "sync_end",
                          "loop_delay"}
            /\ "sync_hour" \notin {stack[i] : i \in DOMAIN stack}
            /\ "sync_minute" \notin {stack[i] : i \in DOMAIN stack}
            /\ servoMinute \in {SERVO_STOP_POSITION,
                                SERVO_STOP_POSITION + SERVO_MOVE_OFFSET_MINUTE(sketch)}
            /\ atPress.button \notin {"hour", "minute"} =>
                  /\ servos = <<SERVO_STOP_POSITION, SERVO_STOP_POSITION>>
                  /\ pc \in {"loop", "loop_mode", "handleButtons", "hb_hour", "hb_minute",
                             "hb_save", "hb_cancel", "hb_end"})
    /\ [][(currentMode = SETTING_MODE /\ pc = "loop_mode") =>
            /\ pc' \in {"loop_mode", "loop"}
            /\ UNCHANGED <<dials, servos, locals, stack>>]_vars
    /\ [][(currentMode = SETTING_MODE /\ currentMode' = SETTING_MODE
           /\ atPress.button \notin {"hour", "minute"}
           /\ atPress'.button \notin {"hour", "minute"}) =>
            UNCHANGED <<dials, servos, locals>>]_vars

\* A whole loop pass has gone by in SETTING mode without a press; the RTC has
\* meanwhile run on to the next minute and hour, and the dials still show the
\* time they showed when the mode was entered.
C18_Witness ==
    /\ currentMode = SETTING_MODE
    /\ pc = "hb_end"
    /\ atPress = NoPress
    /\ sincePress = debounceDelay
    /\ presses = 1
    /\ currentHourOnClock = settingHour
    /\ currentMinuteOnClock = settingMinute
    /\ timeSource = Tick([hour |-> settingHour, minute |-> settingMinute])
    /\ timeSource.hour # currentHourOnClock

\* C19: each call of handleButtons performs at most one button action in both
\* RTC sketches: a press is accepted only when no press has been accepted
\* earlier in the same call, a call that re-syncs for cancel has not written
\* the time source, and the SETTING-mode actions (hour, minute, save, cancel)
\* are run only while the mode is SETTING.
C19_OneActionPerCall ==
    /\ [][presses' # presses => atPress.button = "none"]_vars
    /\ [](atPress.button = "cancel" => atPress.saved = NotSaved)
    /\ [](atPress.button \in {"hour", "minute", "save", "cancel"} =>
            atPress.mode = SETTING_MODE)

\* C20: throughout SETTING mode the scratch values match the display:
\* whenever the mode is SETTING and no dial step is in progress,
\* settingHour = currentHourOnClock and settingMinute = currentMinuteOnClock,
\* and the time a handled save press has written to the time source is the
\* time the dial counters show.
C20_ScratchMatchesDisplay ==
    /\ (currentMode = SETTING_MODE
        /\ pc \in {"loop", "loop_mode", "handleButtons", "hb_hour", "hb_minute",
                   "hb_save", "hb_cancel", "hb_end"}) =>
          /\ settingHour = currentHourOnClock
          /\ settingMinute = currentMinuteOnClock
    /\ atPress.button = "save" =>
          lastAdjust = <<currentHourOnClock, currentMinuteOnClock, 0>>

\* C21: at most one servo is commanded to move at any time; whenever control
\* is outside the homing and step functions (setup, loop(), handleButtons
\* between actions, syncClockToRTC between advances, the pause between the
\* two hour steps) both servos' last command is the stop position, or no
\* command at all before setup has attached them; and every exit of a homing
\* or step function leaves its servo stopped.
C21_OneServoAtATime ==
    /\ [](~(/\ servoMinute = SERVO_STOP_POSITION + SERVO_MOVE_OFFSET_MINUTE(sketch)
            /\ servoHour = SERVO_STOP_POSITION + SERVO_MOVE_OFFSET_HOUR(sketch)))
    /\ [](pc \notin {"goHomeMinute", "goHomeHour", "mms_wait_press", "mms_wait_release",
                     "phs_wait_press", "phs_wait_release"} =>
            \/ servos = <<SERVO_STOP_POSITION, SERVO_STOP_POSITION>>
            \/ /\ servos = <<NOT_ATTACHED, NOT_ATTACHED>>
               /\ pc \in {"setup_rtc_begin", "setup_lost_power", "setup_attach", "halt"})
    /\ [](pc \in {"goHomeMinute", "mms_wait_press", "mms_wait_release"} =>
            servoHour = SERVO_STOP_POSITION)
    /\ [](pc \in {"goHomeHour", "phs_wait_press", "phs_wait_release"} =>
            servoMinute = SERVO_STOP_POSITION)
    /\ [][(pc \in {"goHomeMinute", "mms_wait_press", "mms_wait_release"} /\ pc' # pc
           /\ pc' # "mms_wait_release") =>
            servoMinute' = SERVO_STOP_POSITION]_vars
    /\ [][(pc \in {"goHomeHour", "phs_wait_press", "phs_wait_release"} /\ pc' # pc
           /\ pc' # "phs_wait_release") =>
            servoHour' = SERVO_STOP_POSITION]_vars

\* An hour press is being handled in SETTING mode: the first physical step
\* has run and returned, and during the pause before the second step both
\* servos are stopped.
C21_Witness ==
    /\ pc = "mhn_delay"
    /\ atPress.button = "hour"
    /\ currentMode = SETTING_MODE
    /\ hourSteps = 1
    /\ servos = <<SERVO_STOP_POSITION, SERVO_STOP_POSITION>>

\* C22: homing of both dials completes before any step advance: whenever
\* moveMinuteStep, moveHourToNext, performHourSingleStep or syncClockToRTC is
\* running, and whenever loop() or handleButtons is, neither counter is -1;
\* a counter that has left -1 never becomes -1 again; and the homing
\* functions are entered only from setup, each with its counter still -1.
C22_HomingBeforeSteps ==
    /\ [](pc \in {"moveMinuteStep", "mms_wait_press", "mms_wait_release",
                  "moveHourToNext", "mhn_delay", "mhn_inc", "performHourSingleStep",
                  "phs_wait_press", "phs_wait_release", "syncClockToRTC", "sync_hour",
                  "sync_minute", "sync_end", "loop", "loop_mode", "loop_delay",
                  "wloop_minute", "wloop_hour", "wloop_delay", "handleButtons",
                  "hb_hour", "hb_minute", "hb_save", "hb_cancel", "hb_end"} =>
            Homed)
    /\ []((minuteCalls > 0 \/ hourCalls > 0 \/ hourSteps > 0) => Homed)
    /\ [][currentMinuteOnClock # UNKNOWN => currentMinuteOnClock' # UNKNOWN]_vars
    /\ [][currentHourOnClock # UNKNOWN => currentHourOnClock' # UNKNOWN]_vars
    /\ [][(pc' = "goHomeMinute" /\ pc # "goHomeMinute") =>
            /\ pc = "setup_home_minute"
            /\ currentMinuteOnClock = UNKNOWN]_vars
    /\ [][(pc' = "goHomeHour" /\ pc # "goHomeHour") =>
            /\ pc = "setup_home_hour"
            /\ currentHourOnClock = UNKNOWN]_vars
    /\ [][(pc' \in {"setup_home_minute", "setup_home_hour"} /\ pc' # pc) =>
            pc \in {"setup_attach", "setup_wifi", "setup_lost_power",
                    "goHomeMinute", "goHomeHour"}]_vars

\* Long after homing both dials have gone once round, the counters are back
\* at 0 (not at -1) and a further minute step is running.
C22_Witness ==
    /\ pc = "mms_wait_release"
    /\ minuteCalls = MinutesPerDial
    /\ hourCalls = HoursPerDial
    /\ currentMinuteOnClock = 0
    /\ currentHourOnClock = 0
    /\ homeRead = [minute |-> LOW, hour |-> LOW]

\* C23: whenever the mode is SETTING, settingHour is in 0..23 and
\* settingMinute is in 0..59, after any number of hour and minute increments;
\* the mode is always one of NORMAL and SETTING, it is NORMAL until the first
\* press is accepted, and it changes only when a mode, save or cancel press
\* is accepted.
C23_ScratchInRange ==
    /\ [](currentMode \in {NORMAL_MODE, SETTING_MODE})
    /\ [](currentMode = SETTING_MODE =>
            /\ settingHour \in 0..(HoursPerDial - 1)
            /\ settingMinute \in 0..(MinutesPerDial - 1))
    /\ [](presses = 0 => currentMode = NORMAL_MODE)
    /\ [][currentMode' # currentMode =>
            /\ presses' = presses + 1
            /\ atPress'.button \in {"mode", "save", "cancel"}
            /\ atPress'.button = "mode" <=> currentMode' = SETTING_MODE]_vars

\* SETTING mode was entered at 23:59 and an hour and a minute increment have
\* wrapped both scratch values to 0.
C23_Witness ==
    /\ currentMode = SETTING_MODE
    /\ pc = "loop"
    /\ settingHour = 0
    /\ settingMinute = 0
    /\ timeSource = [hour |-> HoursPerDial - 1, minute |-> MinutesPerDial - 1]
    /\ hourCalls = HoursPerDial
    /\ minuteCalls = MinutesPerDial
    /\ ticks = 0

\* C24: the two dials are independent: while goHomeMinute or moveMinuteStep
\* runs, currentHourOnClock and the hour servo's command do not change; while
\* goHomeHour, moveHourToNext or performHourSingleStep runs,
\* currentMinuteOnClock and the minute servo's command do not change; and a
\* minute wrap from 59 to 0 leaves the hour counter as it is.
C24_DialsIndependent ==
    /\ [][(pc \in {"goHomeMinute", "moveMinuteStep", "mms_wait_press",
                   "mms_wait_release"}) =>
            UNCHANGED <<currentHourOnClock, hourCalls, hourSteps, servoHour>>]_vars
    /\ [][(pc \in {"goHomeHour", "moveHourToNext", "mhn_delay", "mhn_inc",
                   "performHourSingleStep", "phs_wait_press", "phs_wait_release"}) =>
            UNCHANGED <<currentMinuteOnClock, minuteCalls, servoMinute>>]_vars
    /\ [][currentMinuteOnClock' # currentMinuteOnClock =>
            currentHourOnClock' = currentHourOnClock]_vars
    /\ [][currentHourOnClock' # currentHourOnClock =>
            currentMinuteOnClock' = currentMinuteOnClock]_vars
    /\ [][servoMinute' # servoMinute =>
            \/ pc \in {"goHomeMinute", "moveMinuteStep", "mms_wait_release"}
            \/ pc = "setup_attach"]_vars
    /\ [][servoHour' # servoHour =>
            \/ pc \in {"goHomeHour", "performHourSingleStep", "phs_wait_release"}
            \/ pc = "setup_attach"]_vars

\* The minute dial has wrapped from 59 to 0 and the hour dial has not moved
\* since homing.
C24_Witness ==
    /\ minuteCalls = MinutesPerDial
    /\ currentMinuteOnClock = 0
    /\ hourCalls = 0
    /\ currentHourOnClock = 0
    /\ servoHour = SERVO_STOP_POSITION
    /\ pc \notin {"mms_wait_press", "mms_wait_release"}

=============================================================================
